---- MODULE Spec2Model ----
(***************************************************************************)
(* BlueGuard Security Tools (src/app.py): the password strength scorer     *)
(* rate_password and the password generator generate_password.             *)
(*                                                                         *)
(* A Python str is a sequence of characters; a character is a one-element  *)
(* TLA+ string ("a", "!"), except the two caseless letters U+4E2D and      *)
(* U+6587 (CJK ideographs), written "U+4E2D" and "U+6587".                 *)
(***************************************************************************)
EXTENDS Integers, Sequences, FiniteSets

VARIABLES
    pwd,      \* the string handed to rate_password (app.py:154)
    res,      \* the dict rate_password returned for pwd (app.py:160)
    params,   \* the arguments of the running generate_password call
    pc,       \* the position of that call in generate_password
    pw,       \* generate_password's local list pw (app.py:135)
    visited,  \* how many pools the loop of app.py:142 has visited
    draws,    \* number of calls made to the secure random source
    out       \* what the call gave back: nothing yet, a string or an error

vars == <<pwd, res, params, pc, pw, visited, draws, out>>

scorerVars == <<pwd, res>>
genVars == <<params, pc, pw, visited, draws, out>>

(***************************************************************************)
(* Bounds of the model.                                                    *)
(***************************************************************************)
MaxTyped == 4    \* characters typed freely, one key at a time
MaxLen == 17     \* longest password handed to rate_password
MaxLength == 4   \* largest length argument given to generate_password

(***************************************************************************)
(* Characters and strings.                                                 *)
(***************************************************************************)
ascii_lowercase ==
    <<"a", "b", "c", "d", "e", "f", "g", "h", "i", "j", "k", "l", "m",
      "n", "o", "p", "q", "r", "s", "t", "u", "v", "w", "x", "y", "z">>

ascii_uppercase ==
    <<"A", "B", "C", "D", "E", "F", "G", "H", "I", "J", "K", "L", "M",
      "N", "O", "P", "Q", "R", "S", "T", "U", "V", "W", "X", "Y", "Z">>

digits ==
    <<"0", "1", "2", "3", "4", "5", "6", "7", "8", "9">>

\* the literal "!@#$%^&*_-+=:?/~" of build_charset and generate_password
symbol_chars ==
    <<"!", "@", "#", "$", "%", "^", "&", "*", "_", "-", "+", "=", ":", "?", "/", "~">>

\* letters without case: str.isalnum() is True, islower/isupper/isdigit False
CaselessLetters == {"U+4E2D", "U+6587"}

Range(s) == {s[i] : i \in DOMAIN s}

IndexOf(s, c) == CHOOSE i \in DOMAIN s : s[i] = c

Min(a, b) == IF a < b THEN a ELSE b

Max(a, b) == IF a > b THEN a ELSE b

LowercaseLetters == Range(ascii_lowercase)

UppercaseLetters == Range(ascii_uppercase)

DecimalDigits == Range(digits)

islower(c) == c \in LowercaseLetters

isupper(c) == c \in UppercaseLetters

isdigit(c) == c \in DecimalDigits

isalnum(c) == islower(c) \/ isupper(c) \/ isdigit(c) \/ c \in CaselessLetters

\* str.lower(): an uppercase letter becomes its lowercase one, the rest stays
char_lower(c) ==
    IF isupper(c) THEN ascii_lowercase[IndexOf(ascii_uppercase, c)] ELSE c

char_upper(c) ==
    IF islower(c) THEN ascii_uppercase[IndexOf(ascii_lowercase, c)] ELSE c

str_lower(s) == [i \in DOMAIN s |-> char_lower(s[i])]

\* chunk[::-1]
Reverse(s) == [i \in DOMAIN s |-> s[Len(s) + 1 - i]]

\* the substrings of s that are n long: `needle in s` for a needle of n
\* characters is needle \in Substrings(s, n)
Substrings(s, n) == {SubSeq(s, i, i + n - 1) : i \in 1..(Len(s) - n + 1)}

(***************************************************************************)
(* Password strength logic (app.py:38-114).                                *)
(***************************************************************************)
COMMON ==
    { <<"1", "2", "3", "4", "5", "6">>,
      <<"p", "a", "s", "s", "w", "o", "r", "d">>,
      <<"1", "2", "3", "4", "5", "6", "7", "8">>,
      <<"q", "w", "e", "r", "t", "y">>,
      <<"1", "2", "3", "4", "5", "6", "7", "8", "9">>,
      <<"1", "2", "3", "4", "5">>,
      <<"1", "1", "1", "1", "1", "1">>,
      <<"a", "b", "c", "1", "2", "3">>,
      <<"p", "a", "s", "s", "w", "o", "r", "d", "1">>,
      <<"a", "d", "m", "i", "n">>,
      <<"l", "e", "t", "m", "e", "i", "n">>,
      <<"w", "e", "l", "c", "o", "m", "e">>,
      <<"i", "l", "o", "v", "e", "y", "o", "u">>,
      <<"m", "o", "n", "k", "e", "y">>,
      <<"d", "r", "a", "g", "o", "n">>,
      <<"l", "o", "g", "i", "n">> }

SEQUENTIALS ==
    << ascii_lowercase,
       <<"q", "w", "e", "r", "t", "y", "u", "i", "o", "p">>,
       <<"a", "s", "d", "f", "g", "h", "j", "k", "l">>,
       <<"z", "x", "c", "v", "b", "n", "m">>,
       digits >>

_has_lower(s) == \E i \in DOMAIN s : islower(s[i])

_has_upper(s) == \E i \in DOMAIN s : isupper(s[i])

_has_digit(s) == \E i \in DOMAIN s : isdigit(s[i])

_has_symbol(s) == \E i \in DOMAIN s : ~isalnum(s[i])

\* re.search(r"(.)\1{n-1,}", s): a character followed by n-1 copies of itself
_has_repeats(s, n) ==
    \E i \in 1..(Len(s) - n + 1) : \A k \in 1..(n - 1) : s[i + k] = s[i]

\* every window-long slice of every reference sequence, as the loops visit them
Chunks(window) ==
    UNION { { SubSeq(SEQUENTIALS[k], i, i + window - 1) :
                i \in 1..(Len(SEQUENTIALS[k]) - window + 1) } :
            k \in DOMAIN SEQUENTIALS }

\* the slices of the default window of 4, the only one rate_password uses
Chunks4 == Chunks(4)

_has_sequence(s, window) ==
    LET low == Substrings(str_lower(s), window)
    IN  \E chunk \in (IF window = 4 THEN Chunks4 ELSE Chunks(window)) :
            chunk \in low \/ Reverse(chunk) \in low

_charset_size(s) ==
    LET size == (IF _has_lower(s) THEN 26 ELSE 0)
              + (IF _has_upper(s) THEN 26 ELSE 0)
              + (IF _has_digit(s) THEN 10 ELSE 0)
              + (IF _has_symbol(s) THEN 33 ELSE 0)
    IN  Max(1, size)

\* math.log2 in millionths of a bit, rounded down, on the sizes _charset_size
\* returns.  For every length up to 196, len * log2_micro(size) has the integer
\* part and the first decimal of the double len * math.log2(size).
log2_micro(size) ==
    CASE size = 1  -> 0
      [] size = 10 -> 3321928
      [] size = 26 -> 4700439
      [] size = 33 -> 5044394
      [] size = 36 -> 5169925
      [] size = 43 -> 5426264
      [] size = 52 -> 5700439
      [] size = 59 -> 5882643
      [] size = 62 -> 5954196
      [] size = 69 -> 6108524
      [] size = 85 -> 6409390
      [] size = 95 -> 6569855

\* in millionths of a bit
estimate_entropy_bits(s) ==
    IF s = <<>> THEN 0 ELSE Len(s) * log2_micro(_charset_size(s))

\* sum([_has_lower(pw), _has_upper(pw), _has_digit(pw), _has_symbol(pw)])
Variety(s) ==
    (IF _has_lower(s) THEN 1 ELSE 0) + (IF _has_upper(s) THEN 1 ELSE 0)
  + (IF _has_digit(s) THEN 1 ELSE 0) + (IF _has_symbol(s) THEN 1 ELSE 0)

\* base = min(80, int(entropy)); base += (variety - 1) * 5
BaseScore(s) ==
    Min(80, estimate_entropy_bits(s) \div 1000000) + (Variety(s) - 1) * 5

\* faulty variant of InCommon: the membership test without .lower()
InCommonCaseSensitive(s) == s \in COMMON

\* pw.lower() in COMMON
InCommon(s) == str_lower(s) \in COMMON

\* faulty variant of LengthPenalty: the two penalties exchanged
LengthPenaltySwapped(length) ==
    IF length < 8 THEN 10 ELSE IF length < 12 THEN 25 ELSE 0

\* faulty variant of LengthPenalty: the branch for lengths below 8 missing
LengthPenaltyFlat(length) ==
    IF length < 12 THEN 10 ELSE 0

\* the if/elif on length: 25 below 8, 10 below 12
LengthPenalty(length) ==
    IF length < 8 THEN 25 ELSE IF length < 12 THEN 10 ELSE 0

Penalty(s) ==
    (IF InCommon(s) THEN 40 ELSE 0)
  + LengthPenalty(Len(s))
  + (IF _has_repeats(s, 3) THEN 10 ELSE 0)
  + (IF _has_sequence(s, 4) THEN 10 ELSE 0)

FbCommon == "Appears in common-password lists."
FbShort == "Too short. Use at least 12-14 characters."
FbLonger == "Longer is stronger: aim for 12-16+ characters."
FbRepeats == "Avoid repeated characters like 'aaa' or '1111'."
FbSequences == "Avoid keyboard/alphabetical sequences."
FbVariety == "Add upper/lowercase, digits and symbols for variety."
FbPassphrase == "Consider a passphrase of 4-5 random words."
FbTarget == "Target 16+ characters for long-term safety."
FbEmpty == "Password is empty."

If(cond, tip) == IF cond THEN <<tip>> ELSE <<>>

LengthFeedback(length) ==
    IF length < 8 THEN <<FbShort>> ELSE IF length < 12 THEN <<FbLonger>> ELSE <<>>

\* faulty variant of PenaltyFeedback: the variety tip appended first
PenaltyFeedbackVarietyFirst(s) ==
    If(Variety(s) <= 2, FbVariety)
    \o If(InCommon(s), FbCommon)
    \o LengthFeedback(Len(s))
    \o If(_has_repeats(s, 3), FbRepeats)
    \o If(_has_sequence(s, 4), FbSequences)

\* the tips appended while the penalty is summed (app.py:86-94)
PenaltyFeedback(s) ==
    If(InCommon(s), FbCommon)
    \o LengthFeedback(Len(s))
    \o If(_has_repeats(s, 3), FbRepeats)
    \o If(_has_sequence(s, 4), FbSequences)
    \o If(Variety(s) <= 2, FbVariety)

\* faulty variant of Score: the clamp to 0..100 missing
ScoreUnclamped(base, penalty) == base - penalty

\* score = max(0, min(100, base - penalty))
Score(base, penalty) == Max(0, Min(100, base - penalty))

Rating(score) ==
    IF score < 25 THEN "Very Weak"
    ELSE IF score < 45 THEN "Weak"
    ELSE IF score < 65 THEN "Fair"
    ELSE IF score < 85 THEN "Strong"
    ELSE "Excellent"

\* the two tips appended once the rating is known (app.py:103-106)
ClosingAdvice(rating, length) ==
    If(rating \in {"Very Weak", "Weak"}, FbPassphrase)
    \o If(rating # "Excellent" /\ length < 16, FbTarget)

\* the dedupe loop: every tip once, at its first place
RECURSIVE Dedupe(_)
Dedupe(fb) ==
    IF fb = <<>> THEN <<>>
    ELSE LET front == Dedupe(SubSeq(fb, 1, Len(fb) - 1))
             t == fb[Len(fb)]
         IN  IF t \in Range(front) THEN front ELSE Append(front, t)

\* the entropy is kept in tenths of a bit: round(entropy, 1)
rate_password(s) ==
    IF s = <<>>
    THEN [score |-> 0, rating |-> "Very Weak", entropy |-> 0,
          feedback |-> <<FbEmpty>>]
    ELSE LET score == Score(BaseScore(s), Penalty(s))
             rating == Rating(score)
             fb == PenaltyFeedback(s) \o ClosingAdvice(rating, Len(s))
         IN  [score |-> score, rating |-> rating,
              entropy |-> (estimate_entropy_bits(s) + 50000) \div 100000,
              feedback |-> Dedupe(fb)]

(***************************************************************************)
(* The caller of rate_password (app.py:154-160): the text of the password  *)
(* field changes and the new text is rated.                                *)
(***************************************************************************)
\* the keys typed one at a time: two lowercase letters, an uppercase one,
\* a digit, a symbol and a caseless letter
Keys == {"a", "b", "B", "1", "!", "U+4E2D"}

\* the reference slices pasted whole, forwards and backwards
Slices == Chunks4 \cup {Reverse(c) : c \in Chunks4}

\* s with the positions of up typed with the shift key held
ApplyCase(s, up) == [i \in DOMAIN s |-> IF i \in up THEN char_upper(s[i]) ELSE s[i]]

NoCall == [length |-> 0, lower |-> FALSE, upper |-> FALSE, digits |-> FALSE,
           symbols |-> FALSE, no_amb |-> FALSE]

Init ==
    /\ pwd = <<>>
    /\ res = rate_password(<<>>)
    /\ params = NoCall
    /\ pc = "idle"
    /\ pw = <<>>
    /\ visited = 0
    /\ draws = 0
    /\ out = [kind |-> "none"]

Rate(s) ==
    /\ pwd' = s
    /\ res' = rate_password(s)
    /\ UNCHANGED genVars

TypeKey ==
    /\ Len(pwd) < MaxTyped
    /\ \E c \in Keys : Rate(Append(pwd, c))

\* a common password, in any mix of upper and lower case
PasteCommon ==
    /\ pwd = <<>>
    /\ \E w \in COMMON : \E up \in SUBSET DOMAIN w : Rate(ApplyCase(w, up))

\* a reference slice, in lower or in upper case
PasteSlice ==
    /\ pwd = <<>>
    /\ \E w \in Slices : \E up \in {{}, DOMAIN w} : Rate(ApplyCase(w, up))

\* the text is continued by repeating its last MaxTyped characters
Extend ==
    /\ Len(pwd) >= MaxTyped
    /\ Len(pwd) < MaxLen
    /\ Rate(Append(pwd, pwd[Len(pwd) + 1 - MaxTyped]))

NextScorer == TypeKey \/ PasteCommon \/ PasteSlice \/ Extend

SpecScorer == Init /\ [][NextScorer]_vars

(***************************************************************************)
(* Password generator (app.py:117-146).                                    *)
(***************************************************************************)
AMBIGUOUS ==
    {"O", "0", "o", "I", "l", "1", "|", "`", "'", "\"", ";", ":", ",", ".",
     "{", "}", "[", "]", "(", ")", "<", ">"}

\* "".join(c for c in chars if c not in AMBIGUOUS)
Filter(chars) == SelectSeq(chars, LAMBDA c : c \notin AMBIGUOUS)

\* faulty variant of build_charset: the digits added whatever the flag
build_charset_digits_always(lower, upper, digs, symbols, no_amb) ==
    LET chars == (IF lower THEN ascii_lowercase ELSE <<>>)
              \o (IF upper THEN ascii_uppercase ELSE <<>>)
              \o digits
              \o (IF symbols THEN symbol_chars ELSE <<>>)
    IN  IF no_amb THEN Filter(chars) ELSE chars

\* chars grows by the pool of each class whose flag is set, then loses the
\* ambiguous characters when no_amb is set
build_charset(lower, upper, digs, symbols, no_amb) ==
    LET chars == (IF lower THEN ascii_lowercase ELSE <<>>)
              \o (IF upper THEN ascii_uppercase ELSE <<>>)
              \o (IF digs THEN digits ELSE <<>>)
              \o (IF symbols THEN symbol_chars ELSE <<>>)
    IN  IF no_amb THEN Filter(chars) ELSE chars

\* the list pools of app.py:137-141
ClassPools(p) ==
    (IF p.lower THEN <<ascii_lowercase>> ELSE <<>>)
    \o (IF p.upper THEN <<ascii_uppercase>> ELSE <<>>)
    \o (IF p.digits THEN <<digits>> ELSE <<>>)
    \o (IF p.symbols THEN <<symbol_chars>> ELSE <<>>)

\* sum([lower, upper, digits, symbols])
NumFlags(p) ==
    (IF p.lower THEN 1 ELSE 0) + (IF p.upper THEN 1 ELSE 0)
  + (IF p.digits THEN 1 ELSE 0) + (IF p.symbols THEN 1 ELSE 0)

NoClassError == "Enable at least one character set."
TooShortError == "Length too short for requested complexity."

\* faulty variant of ValidationError: the floor of 4 on the length missing
ValidationErrorNoFloor(p) ==
    IF ~(p.lower \/ p.upper \/ p.digits \/ p.symbols) THEN NoClassError
    ELSE IF p.length < NumFlags(p) THEN TooShortError
    ELSE ""

\* the two checks of app.py:130-133: the message of the ValueError raised,
\* "" when none is
ValidationError(p) ==
    IF ~(p.lower \/ p.upper \/ p.digits \/ p.symbols) THEN NoClassError
    ELSE IF p.length < Max(4, NumFlags(p)) THEN TooShortError
    ELSE ""

\* secrets.randbelow(n): any of 0..n-1
randbelow(n) == 0..(n - 1)

\* secrets.choice(s) is s[randbelow(len(s))]; the draws followed are the two
\* ends of the range, the first and the last item of s
choice(s) == IF s = <<>> THEN {} ELSE {s[1], s[Len(s)]}

\* x with c put in after its first i items
InsertAt(x, i, c) == SubSeq(x, 1, i) \o <<c>> \o SubSeq(x, i + 1, Len(x))

\* SystemRandom().shuffle(x): every rearrangement of x, each one the first
\* item put somewhere into a rearrangement of the rest
RECURSIVE Shuffles(_)
Shuffles(x) ==
    IF x = <<>> THEN {<<>>}
    ELSE UNION { {InsertAt(y, i, Head(x)) : i \in 0..Len(y)} :
                 y \in Shuffles(Tail(x)) }

ParamSpace ==
    [length : 0..MaxLength, lower : BOOLEAN, upper : BOOLEAN, digits : BOOLEAN,
     symbols : BOOLEAN, no_amb : BOOLEAN]

\* app.py:129-133: the call and its two checks
Call ==
    /\ pc = "idle"
    /\ \E p \in ParamSpace :
        /\ params' = p
        /\ IF ValidationError(p) # ""
           THEN /\ out' = [kind |-> "error", message |-> ValidationError(p)]
                /\ pc' = "done"
           ELSE /\ out' = [kind |-> "none"]
                /\ pc' = "fill"
    /\ UNCHANGED <<pw, visited, draws>>
    /\ UNCHANGED scorerVars

\* app.py:134-141: the charset, one draw from it per position, and the list
\* of pools
Fill ==
    /\ pc = "fill"
    /\ LET charset == build_charset(params.lower, params.upper, params.digits,
                                    params.symbols, params.no_amb)
       IN  pw' \in [1..params.length -> choice(charset)]
    /\ draws' = draws + params.length
    /\ visited' = 0
    /\ pc' = "overwrite"
    /\ UNCHANGED <<params, out>>
    /\ UNCHANGED scorerVars

\* app.py:142-144: one turn of the loop over the pools
Overwrite ==
    /\ pc = "overwrite"
    /\ LET pools == ClassPools(params)
       IN  /\ visited < Len(pools)
           /\ \E idx \in randbelow(Len(pw)) : \E c \in choice(pools[visited + 1]) :
                pw' = [pw EXCEPT ![idx + 1] = c]
           /\ pc' = IF visited + 1 = Len(pools) THEN "shuffle" ELSE "overwrite"
    /\ draws' = draws + 2
    /\ visited' = visited + 1
    /\ UNCHANGED <<params, out>>
    /\ UNCHANGED scorerVars

\* app.py:145-146: the shuffle and the return
ShuffleAndReturn ==
    /\ pc = "shuffle"
    /\ pw' \in Shuffles(pw)
    /\ out' = [kind |-> "ok", value |-> pw']
    /\ draws' = draws + 1
    /\ pc' = "done"
    /\ UNCHANGED <<params, visited>>
    /\ UNCHANGED scorerVars

\* app.py:193-194: the caller takes what the call gave back (the string, or
\* the ValueError) and the next call starts afresh
Collect ==
    /\ pc = "done"
    /\ params' = NoCall
    /\ pc' = "idle"
    /\ pw' = <<>>
    /\ visited' = 0
    /\ draws' = 0
    /\ out' = [kind |-> "none"]
    /\ UNCHANGED scorerVars

NextGen == Call \/ Fill \/ Overwrite \/ ShuffleAndReturn \/ Collect

SpecGen == Init /\ [][NextGen]_vars

(***************************************************************************)
(* Properties of rate_password, checked under SpecScorer.                  *)
(***************************************************************************)
\* the four class flags of a string
ClassSet(s) == <<_has_lower(s), _has_upper(s), _has_digit(s), _has_symbol(s)>>

\* no penalty trigger other than the length: not a common password, no run
\* of 3 identical characters, no 4-character reference sequence
Clean(s) ==
    /\ s # <<>>
    /\ str_lower(s) \notin COMMON
    /\ ~_has_repeats(s, 3)
    /\ ~_has_sequence(s, 4)

\* a string with exactly the classes of flags once it is long enough: one
\* character of each class, then a second one of each, repeated
ProbeSeed(flags) ==
    LET pick(cs) == SelectSeq(cs, LAMBDA c :
                        \/ flags[1] /\ islower(c)
                        \/ flags[2] /\ isupper(c)
                        \/ flags[3] /\ isdigit(c)
                        \/ flags[4] /\ ~isalnum(c))
    IN  IF flags = <<FALSE, FALSE, FALSE, FALSE>>
        THEN <<"U+4E2D", "U+6587">>
        ELSE pick(<<"a", "B", "1", "!">>) \o pick(<<"b", "A", "2", "?">>)

Probe(flags, n) ==
    LET seed == ProbeSeed(flags)
    IN  [i \in 1..n |-> seed[((i - 1) % Len(seed)) + 1]]

Probes == {Probe(flags, n) : flags \in [1..4 -> BOOLEAN], n \in 1..MaxLen}

\* the classes, length and score of every clean probe
ProbeRows ==
    { [classes |-> ClassSet(q), len |-> Len(q), score |-> rate_password(q).score] :
      q \in {x \in Probes : Clean(x)} }

\* C1: the score is an integer in 0..100 and the rating is the threshold
\* bucket of the score: Very Weak below 25, Weak below 45, Fair below 65,
\* Strong below 85, Excellent from 85.
C1_ScoreRangeAndBucket ==
    /\ res.score \in 0..100
    /\ res.rating \in {"Very Weak", "Weak", "Fair", "Strong", "Excellent"}
    /\ res.rating = "Very Weak" <=> res.score < 25
    /\ res.rating = "Weak" <=> (25 <= res.score /\ res.score < 45)
    /\ res.rating = "Fair" <=> (45 <= res.score /\ res.score < 65)
    /\ res.rating = "Strong" <=> (65 <= res.score /\ res.score < 85)
    /\ res.rating = "Excellent" <=> res.score >= 85

\* a non-empty password whose penalties exceed its base: the clamp acts
C1_Witness ==
    /\ pwd # <<>>
    /\ BaseScore(pwd) - Penalty(pwd) < 0
    /\ res.score = 0
    /\ res.rating = "Very Weak"

\* C6: a password whose lowercased form is in COMMON, in any mix of case,
\* gets the tip "Appears in common-password lists." and a score below 45,
\* that is a rating of Weak or Very Weak.
C6_CommonIsWeak ==
    str_lower(pwd) \in COMMON =>
        /\ \E i \in DOMAIN res.feedback : res.feedback[i] = FbCommon
        /\ res.score < 45
        /\ res.rating \in {"Weak", "Very Weak"}

\* a common password typed in mixed case, with a score left after the penalty
C6_Witness ==
    /\ str_lower(pwd) \in COMMON
    /\ pwd \notin COMMON
    /\ \E i \in DOMAIN res.feedback : res.feedback[i] = FbCommon
    /\ res.score > 0

\* C7: among passwords with the same classes and no penalty trigger other
\* than the length, a longer one never scores less: the password rated is
\* compared with every clean probe of its classes, shorter, equal or longer.
C7_MonotonicInLength ==
    Clean(pwd) =>
        LET classes == ClassSet(pwd)
        IN  \A r \in ProbeRows :
                r.classes = classes =>
                    /\ Len(pwd) <= r.len => res.score <= r.score
                    /\ r.len <= Len(pwd) => r.score <= res.score

\* a clean password of 7 characters and a clean probe of 8 with its classes
\* that scores strictly more
C7_Witness ==
    /\ Clean(pwd)
    /\ Len(pwd) = 7
    /\ LET classes == ClassSet(pwd)
       IN  \E r \in ProbeRows :
            r.classes = classes /\ r.len = 8 /\ r.score > res.score

\* the place of a tip in the order the tips are appended in
TipRank(tip) ==
    CASE tip = FbCommon -> 1
      [] tip \in {FbShort, FbLonger} -> 2
      [] tip = FbRepeats -> 3
      [] tip = FbSequences -> 4
      [] tip = FbVariety -> 5
      [] tip = FbPassphrase -> 6
      [] tip = FbTarget -> 7
      [] OTHER -> 0

\* C8: the feedback holds no tip twice, and its tips stand in the order they
\* are appended in: common list, length, repeats, sequences, variety,
\* passphrase, 16+ target (the empty password has its own single tip).
C8_FeedbackDistinctAndOrdered ==
    /\ \A i, j \in DOMAIN res.feedback :
        i < j => res.feedback[i] # res.feedback[j]
    /\ pwd = <<>> => res.feedback = <<FbEmpty>>
    /\ pwd # <<>> =>
        /\ \A i \in DOMAIN res.feedback : TipRank(res.feedback[i]) > 0
        /\ \A i, j \in DOMAIN res.feedback :
            i < j => TipRank(res.feedback[i]) < TipRank(res.feedback[j])

\* a password that collects six tips, the variety tip and both closing tips
\* among them
C8_Witness ==
    /\ Len(res.feedback) = 6
    /\ res.feedback[4] = FbVariety
    /\ res.feedback[5] = FbPassphrase
    /\ res.feedback[6] = FbTarget

\* C9: for a non-empty password at least one class is detected, so the
\* summed size is at least 10 before the floor, the variety is at least 1
\* and the variety bonus is not negative.
C9_NonEmptyHasAClass ==
    pwd # <<>> =>
        /\ _has_lower(pwd) \/ _has_upper(pwd) \/ _has_digit(pwd) \/ _has_symbol(pwd)
        /\ _charset_size(pwd) >= 10
        /\ Variety(pwd) >= 1
        /\ (Variety(pwd) - 1) * 5 >= 0

\* C10: a password shorter than 8 scores below 45 and is never rated Fair,
\* Strong or Excellent; one shorter than 12 scores below 85 and is never
\* rated Excellent.
C10_LengthCeiling ==
    /\ Len(pwd) < 8 =>
        /\ res.score < 45
        /\ res.rating \notin {"Fair", "Strong", "Excellent"}
    /\ Len(pwd) < 12 =>
        /\ res.score < 85
        /\ res.rating # "Excellent"

\* a password of 7 characters with all four classes, at the highest score a
\* password that short gets
C10_Witness ==
    /\ Len(pwd) = 7
    /\ Variety(pwd) = 4
    /\ res.score = 35
    /\ res.rating = "Weak"

(***************************************************************************)
(* Properties of generate_password, checked under SpecGen.                 *)
(***************************************************************************)
Returned == pc = "done" /\ out.kind = "ok"

\* c is a character of the pool of a class that p enables
InEnabledPool(p, c) ==
    \/ p.lower /\ c \in LowercaseLetters
    \/ p.upper /\ c \in UppercaseLetters
    \/ p.digits /\ c \in DecimalDigits
    \/ p.symbols /\ c \in Range(symbol_chars)

\* s holds a character of every class that p enables
HasEveryEnabledClass(p, s) ==
    /\ p.lower => \E i \in DOMAIN s : s[i] \in LowercaseLetters
    /\ p.upper => \E i \in DOMAIN s : s[i] \in UppercaseLetters
    /\ p.digits => \E i \in DOMAIN s : s[i] \in DecimalDigits
    /\ p.symbols => \E i \in DOMAIN s : s[i] \in Range(symbol_chars)

\* no class flag is true, or the length is below max(4, number of true flags)
InvalidParams(p) ==
    \/ ~p.lower /\ ~p.upper /\ ~p.digits /\ ~p.symbols
    \/ p.length < 4
    \/ p.length < Cardinality({f \in {"lower", "upper", "digits", "symbols"} : p[f]})

\* C2: with no_amb set, the string returned holds no character of AMBIGUOUS.
C2_NoAmbiguousCharacter ==
    (Returned /\ params.no_amb) =>
        \A i \in DOMAIN out.value : out.value[i] \notin AMBIGUOUS

\* C3: for valid parameters the call returns a string of exactly length
\* characters, each from the pool of an enabled class.
C3_LengthAndEnabledPools ==
    /\ (pc = "done" /\ ~InvalidParams(params)) => out.kind = "ok"
    /\ Returned =>
        /\ Len(out.value) = params.length
        /\ \A i \in DOMAIN out.value : InEnabledPool(params, out.value[i])

\* a string returned with two classes enabled and two disabled, both enabled
\* classes in it
C3_Witness ==
    /\ Returned
    /\ params.lower /\ params.symbols /\ ~params.upper /\ ~params.digits
    /\ HasEveryEnabledClass(params, out.value)
    /\ Len(out.value) = MaxLength

\* C4: with no class flag true, or a length below max(4, number of true
\* flags), the call ends in the error with no random draw made and nothing
\* generated.
C4_InvalidParamsFail ==
    (pc # "idle" /\ InvalidParams(params)) =>
        /\ pc = "done"
        /\ out.kind = "error"
        /\ draws = 0
        /\ pw = <<>>

\* length 3 with all four flags true: the length error
C4_Witness ==
    /\ pc = "done"
    /\ params.length = 3
    /\ params.lower /\ params.upper /\ params.digits /\ params.symbols
    /\ out = [kind |-> "error", message |-> TooShortError]
    /\ draws = 0

\* C5: the string returned holds a character of every enabled class.
C5_EveryEnabledClassPresent ==
    Returned => HasEveryEnabledClass(params, out.value)

====
